---- MODULE Spec2Model ----
(***************************************************************************)
(* Model of the task API of the FullStack-TaskManager backend:             *)
(* server/routes/taskRoutes.js mounted at /api/tasks by server/server.js.  *)
(* The state is the Task collection, the module-level GEMINI_API_KEY and,  *)
(* for the request handled last, the request itself, the responses the     *)
(* server sent for it and the outbound calls it made.  One action per      *)
(* request kind; each goes through the router's dispatch, the auth         *)
(* middleware and the route's handler.  The database is assumed available  *)
(* (find/save/deleteOne do not fail for other reasons than a malformed id).*)
(***************************************************************************)
EXTENDS Integers, Sequences, FiniteSets, TLC

\* ---- bounds ----
MaxTasks == 2          \* number of task documents ever created
MaxReqs == 3           \* number of requests handled in a behaviour

\* ---- JavaScript values ----
Undefined == "<undefined>"
Null == "<null>"

\* JS falsiness of the values a body field takes here (!x, x || y)
Falsy(x) == x \in {Undefined, Null, ""}

\* JS a || b
Or(x, y) == IF Falsy(x) THEN y ELSE x

\* ---- record shapes ----
\* The records kept in the state are built by these constructors, fields in the order
\* in which the names first occur in the module (the order TLC keeps them in).
\* a Task document
TaskDoc(_id, user, title, description, priority, dueDate, status, createdAt) ==
  [_id |-> _id, user |-> user, title |-> title, description |-> description,
   priority |-> priority, dueDate |-> dueDate, status |-> status, createdAt |-> createdAt]

\* req.body, a field Undefined when the JSON body does not have it
ReqBody(user, title, description, priority, dueDate, status, mainTaskTitle) ==
  [user |-> user, title |-> title, description |-> description, priority |-> priority,
   dueDate |-> dueDate, status |-> status, mainTaskTitle |-> mainTaskTitle]

\* a response: res.status(status).json(...); kind tells what json is
Response(status, kind, msg, json) ==
  [status |-> status, kind |-> kind, msg |-> msg, json |-> json]
Msg(status, msg) == Response(status, "msg", msg, Null)
Json(status, kind, json) == Response(status, kind, "", json)

\* a request; id is read by the /:id routes only
Request(method, path, token, id, body) ==
  [method |-> method, path |-> path, token |-> token, id |-> id, body |-> body]

\* One outcome of fetch(apiUrl): the promise rejects, or it resolves to a
\* response with a status whose body can or cannot be read; payload names the
\* body text of a response that was read.
Upstream(status, fetch, read, payload) ==
  [status |-> status, fetch |-> fetch, read |-> read, payload |-> payload]

\* What a route has done when it returns or reaches an await on the outside
\* world: the collection afterwards, the next fresh id, the responses sent, the
\* outbound calls made, whether the handler body ran.
Eff(tasks, nextId, sent, outbound, ran) ==
  [tasks |-> tasks, nextId |-> nextId, sent |-> sent, outbound |-> outbound, ran |-> ran]

\* A PUT or DELETE handler that awaits its write: its request and the task
\* that findById gave it.
Awaiting(req, task) == [req |-> req, task |-> task]

\* ---- users and tokens ----
Users == {"u1", "u2"}
NoToken == "<no token>"
BadToken == "<bad signature>"
TokenOf(u) == "jwt:" \o u
Tokens == {NoToken, BadToken} \cup {TokenOf(u) : u \in Users}

\* jwt.verify: the payload's user id for a token signed by the server
Verified(tok) == {u \in Users : TokenOf(u) = tok}

\* ---- ids ----
\* Positive integers stand for well-formed ObjectId strings, BadId for a
\* string that does not cast to an ObjectId.
BadId == 0
ObjectIds == 1..MaxTasks
ParamIds == ObjectIds \cup {BadId}
IsObjectId(id) == id > 0

VARIABLES
  tasks,           \* the Task collection: _id -> document
  nextId,          \* the next fresh _id / creation time
  GEMINI_API_KEY,  \* process.env.GEMINI_API_KEY || "", read at module load
  req,             \* the request handled last
  sent,            \* the responses sent for it, in order
  outbound,        \* the calls it made to the AI service, with their outcomes
  ran,             \* whether its handler body ran
  pc,              \* "idle", or "fetch" while it awaits the AI service
  nreq,            \* number of requests received
  awaiting,        \* the PUT and DELETE handlers between findById and their write
  removed          \* the ids for which a DELETE has answered "Task removed"

vars == <<tasks, nextId, GEMINI_API_KEY, req, sent, outbound, ran, pc, nreq, awaiting,
          removed>>

\* ---- request bodies ----
EmptyBody == ReqBody(Undefined, Undefined, Undefined, Undefined, Undefined, Undefined,
                     Undefined)

\* bodies of POST /: no title, an empty one or a title, alone, with the other
\* fields, or with fields the handler does not read and an empty dueDate
PostBodies ==
  { ReqBody(r[1], t, r[2], r[3], r[4], r[5], Undefined) :
      t \in {Undefined, "", "t1"},
      r \in { <<Undefined, Undefined, Undefined, Undefined, Undefined>>,
              <<Undefined, "d1", "high", "2025-12-31", Undefined>>,
              <<"u2", Undefined, Undefined, "", "completed">> } }

\* bodies of PUT /:id
PutBodies ==
  { ReqBody(Undefined, Undefined, Undefined, "low", Undefined, "completed", Undefined),
    ReqBody(Undefined, "t2", Undefined, Undefined, Undefined, Undefined, Undefined),
    ReqBody(Undefined, "", "", Undefined, Undefined, Undefined, Undefined),
    ReqBody(Undefined, Undefined, Undefined, Undefined, "", Undefined, Undefined),
    ReqBody(Undefined, Undefined, Undefined, Undefined, Null, Undefined, Undefined),
    ReqBody("u2", Undefined, "d1", Undefined, "2026-01-01", Undefined, Undefined) }

\* bodies of POST /suggest
SuggestBodies ==
  { ReqBody(Undefined, Undefined, Undefined, Undefined, Undefined, Undefined, t) :
      t \in {Undefined, "", "Plan trip"} }

\* ---- models/Task.js (not in src/): the document a new Task(...) becomes ----
DefaultPriority == "medium"
DefaultStatus == "pending"

NewTask(id, fields) ==
  TaskDoc(id, fields.user, fields.title, fields.description,
          IF fields.priority = Undefined THEN DefaultPriority ELSE fields.priority,
          fields.dueDate, DefaultStatus, id)

\* ---- middleware/authMiddleware.js (not in src/) ----
\* Accepts a request exactly when x-auth-token verifies; then req.user.id is
\* the token's user id.
Auth(tok) ==
  IF tok = NoToken THEN [ok |-> FALSE, res |-> Msg(401, "No token, authorization denied")]
  ELSE IF Verified(tok) = {} THEN [ok |-> FALSE, res |-> Msg(401, "Token is not valid")]
  ELSE [user |-> CHOOSE u \in Verified(tok) : TRUE, ok |-> TRUE]

\* ---- Mongoose calls of the handlers ----
\* Task.findById(id): CastError for a malformed id, null for no document.
FindById(id) ==
  IF ~IsObjectId(id) THEN [err |-> "ObjectId", doc |-> Null]
  ELSE IF id \in DOMAIN tasks THEN [err |-> "", doc |-> tasks[id]]
  ELSE [err |-> "", doc |-> Null]

\* the catch blocks of PUT and DELETE without the test of err.kind
CatchCastServerError(err) == Msg(500, "Server error")

\* the catch blocks of PUT and DELETE
CatchCast(err) ==
  IF err = "ObjectId" THEN Msg(400, "Invalid task ID") ELSE Msg(500, "Server error")

\* the element of the set S of tasks with the latest createdAt
Newest(S) == CHOOSE t \in S : \A o \in S : o.createdAt <= t.createdAt

\* .sort({ createdAt: -1 })
RECURSIVE SortNewestFirst(_)
SortNewestFirst(S) ==
  IF S = {} THEN <<>>
  ELSE <<Newest(S)>> \o SortNewestFirst(S \ {Newest(S)})

\* Task.find({}) in place of Task.find({ user: uid })
FindAllUsers(uid) == {tasks[i] : i \in DOMAIN tasks}

\* Task.find({ user: uid })
FindByUser(uid) == {tasks[i] : i \in {j \in DOMAIN tasks : tasks[j].user = uid}}

\* ---- handlers of routes/taskRoutes.js ----
\* POST / taking the owner from the body when the body names one
PostHandlerBodyUser(uid, body) ==
  IF Falsy(body.title) THEN
    Eff(tasks, nextId, <<Msg(400, "Task title is required")>>, <<>>, TRUE)
  ELSE
    LET task == NewTask(nextId, [user |-> Or(body.user, uid), title |-> body.title,
                                 description |-> body.description,
                                 priority |-> body.priority,
                                 dueDate |-> Or(body.dueDate, Null)])
    IN Eff(tasks @@ (nextId :> task), nextId + 1, <<Json(201, "task", task)>>, <<>>, TRUE)

\* POST / saving before it validates the title
PostHandlerSaveFirst(uid, body) ==
  LET task == NewTask(nextId, [user |-> uid, title |-> body.title,
                               description |-> body.description,
                               priority |-> body.priority,
                               dueDate |-> Or(body.dueDate, Null)])
  IN IF Falsy(body.title) THEN
       Eff(tasks @@ (nextId :> task), nextId + 1,
           <<Msg(400, "Task title is required")>>, <<>>, TRUE)
     ELSE
       Eff(tasks @@ (nextId :> task), nextId + 1, <<Json(201, "task", task)>>, <<>>, TRUE)

\* POST /
PostHandler(uid, body) ==
  IF Falsy(body.title) THEN
    Eff(tasks, nextId, <<Msg(400, "Task title is required")>>, <<>>, TRUE)
  ELSE
    LET task == NewTask(nextId, [user |-> uid, title |-> body.title,
                                 description |-> body.description,
                                 priority |-> body.priority,
                                 dueDate |-> Or(body.dueDate, Null)])
    IN Eff(tasks @@ (nextId :> task), nextId + 1, <<Json(201, "task", task)>>, <<>>, TRUE)

\* GET /
GetHandler(uid) ==
  Eff(tasks, nextId, <<Json(200, "tasks", SortNewestFirst(FindByUser(uid)))>>, <<>>, TRUE)

\* the field assignments of PUT /:id without the step that turns an empty
\* dueDate into null
UpdateFieldsEmptyDueDate(task, body) ==
  [task EXCEPT
     !.title = Or(body.title, task.title),
     !.description = IF body.description # Undefined THEN body.description
                     ELSE task.description,
     !.priority = Or(body.priority, task.priority),
     !.dueDate = IF body.dueDate # Undefined THEN body.dueDate ELSE task.dueDate,
     !.status = Or(body.status, task.status)]

\* the field assignments of PUT /:id with title assigned as it comes
UpdateFieldsOverwrite(task, body) ==
  [task EXCEPT
     !.title = body.title,
     !.description = IF body.description # Undefined THEN body.description
                     ELSE task.description,
     !.priority = Or(body.priority, task.priority),
     !.dueDate = IF body.dueDate = "" THEN Null
                 ELSE IF body.dueDate # Undefined THEN body.dueDate
                 ELSE task.dueDate,
     !.status = Or(body.status, task.status)]

\* the field assignments of PUT /:id
UpdateFields(task, body) ==
  [task EXCEPT
     !.title = Or(body.title, task.title),
     !.description = IF body.description # Undefined THEN body.description
                     ELSE task.description,
     !.priority = Or(body.priority, task.priority),
     !.dueDate = IF body.dueDate = "" THEN Null
                 ELSE IF body.dueDate # Undefined THEN body.dueDate
                 ELSE task.dueDate,
     !.status = Or(body.status, task.status)]

\* PUT /:id without the ownership check
PutHandlerNoOwnerCheck(uid, id, body) ==
  LET found == FindById(id) IN
  IF found.err # "" THEN Eff(tasks, nextId, <<CatchCast(found.err)>>, <<>>, TRUE)
  ELSE IF id \notin DOMAIN tasks THEN
    Eff(tasks, nextId, <<Msg(404, "Task not found")>>, <<>>, TRUE)
  ELSE
    LET task == UpdateFields(found.doc, body)
    IN Eff([tasks EXCEPT ![id] = task], nextId, <<Json(200, "task", task)>>, <<>>, TRUE)

\* PUT /:id
PutHandler(uid, id, body) ==
  LET found == FindById(id) IN
  IF found.err # "" THEN Eff(tasks, nextId, <<CatchCast(found.err)>>, <<>>, TRUE)
  ELSE IF id \notin DOMAIN tasks THEN
    Eff(tasks, nextId, <<Msg(404, "Task not found")>>, <<>>, TRUE)
  ELSE IF found.doc.user # uid THEN
    Eff(tasks, nextId, <<Msg(401, "Not authorized")>>, <<>>, TRUE)
  ELSE
    LET task == UpdateFields(found.doc, body)
    IN Eff([tasks EXCEPT ![id] = task], nextId, <<Json(200, "task", task)>>, <<>>, TRUE)

\* DELETE /:id
DeleteHandler(uid, id) ==
  LET found == FindById(id) IN
  IF found.err # "" THEN Eff(tasks, nextId, <<CatchCast(found.err)>>, <<>>, TRUE)
  ELSE IF id \notin DOMAIN tasks THEN
    Eff(tasks, nextId, <<Msg(404, "Task not found")>>, <<>>, TRUE)
  ELSE IF found.doc.user # uid THEN
    Eff(tasks, nextId, <<Msg(401, "Not authorized")>>, <<>>, TRUE)
  ELSE
    Eff([i \in DOMAIN tasks \ {id} |-> tasks[i]], nextId,
        <<Msg(200, "Task removed")>>, <<>>, TRUE)

\* ---- the external AI service, as POST /suggest sees it ----
\* a call that is not answered yet
Pending == Upstream(0, "pending", "none", "")

Payloads ==
  { "", "<html>", "null", "{}", "candidates:[]", "candidates:[{}]", "content:{}",
    "parts:[]", "text:", "text:not json", "text:{\"a\":1}", "text:null", "text:[]",
    "text:[\"Plan\",\"Do\"]" }

Upstreams ==
  { Upstream(0, "reject", "none", "") }
  \cup { Upstream(st, "resolve", rd, "error") : st \in {429, 503}, rd \in {"ok", "fail"} }
  \cup { Upstream(200, "resolve", "fail", "") }
  \cup { Upstream(200, "resolve", "ok", p) : p \in Payloads }

\* response.ok
ResponseOk(status) == status \in 200..299

\* JSON values, tagged by type
JUndef == [type |-> "undefined"]
JNull == [type |-> "null"]
JStr(s) == [type |-> "string", value |-> s]
JArr(a) == [type |-> "array", value |-> a]
JObj(o) == [type |-> "object", value |-> o]

\* a Gemini result whose candidates[0].content is c
Candidate(c) == JObj([candidates |-> JArr(<<JObj([content |-> c])>>)])
\* a Gemini result whose candidates[0].content.parts[0].text is the string s
WithText(s) == Candidate(JObj([parts |-> JArr(<<JObj([text |-> JStr(s)])>>)]))

\* response.json(): the parsed body, or a SyntaxError
ResponseJson(p) ==
  CASE p = "null" -> [ok |-> TRUE, value |-> JNull]
    [] p = "{}" -> [ok |-> TRUE, value |-> JObj([finishReason |-> JStr("x")])]
    [] p = "candidates:[]" -> [ok |-> TRUE, value |-> JObj([candidates |-> JArr(<<>>)])]
    [] p = "candidates:[{}]" ->
         [ok |-> TRUE,
          value |-> JObj([candidates |-> JArr(<<JObj([finishReason |-> JStr("SAFETY")])>>)])]
    [] p = "content:{}" -> [ok |-> TRUE, value |-> Candidate(JObj([role |-> JStr("model")]))]
    [] p = "parts:[]" -> [ok |-> TRUE, value |-> Candidate(JObj([parts |-> JArr(<<>>)]))]
    [] p = "text:" -> [ok |-> TRUE, value |-> WithText("")]
    [] p = "text:not json" -> [ok |-> TRUE, value |-> WithText("not json")]
    [] p = "text:{\"a\":1}" -> [ok |-> TRUE, value |-> WithText("{\"a\":1}")]
    [] p = "text:null" -> [ok |-> TRUE, value |-> WithText("null")]
    [] p = "text:[]" -> [ok |-> TRUE, value |-> WithText("[]")]
    [] p = "text:[\"Plan\",\"Do\"]" -> [ok |-> TRUE, value |-> WithText("[\"Plan\",\"Do\"]")]
    [] OTHER -> [ok |-> FALSE, value |-> JUndef]

\* JSON.parse(rawJsonText): the parsed value, or a SyntaxError
JsonParse(s) ==
  CASE s = "null" -> [ok |-> TRUE, value |-> JNull]
    [] s = "{\"a\":1}" -> [ok |-> TRUE, value |-> JObj([a |-> JStr("1")])]
    [] s = "[]" -> [ok |-> TRUE, value |-> JArr(<<>>)]
    [] s = "[\"Plan\",\"Do\"]" -> [ok |-> TRUE, value |-> JArr(<<JStr("Plan"), JStr("Do")>>)]
    [] OTHER -> [ok |-> FALSE, value |-> JUndef]

\* Array.isArray
IsArray(j) == j.type = "array"

\* JS truthiness of a JSON value
Truthy(j) ==
  CASE j.type \in {"undefined", "null"} -> FALSE
    [] j.type = "string" -> j.value # ""
    [] OTHER -> TRUE

\* j.field of an object (undefined when the property is missing)
Prop(j, field) == IF j.type = "object" /\ field \in DOMAIN j.value THEN j.value[field] ELSE JUndef
\* j.length > 0 of an array
NonEmpty(j) == j.type = "array" /\ Len(j.value) > 0
\* j[0]
First(j) == IF NonEmpty(j) THEN j.value[1] ELSE JUndef

\* the structure check of POST /suggest on the parsed result
HasText(result) ==
  LET candidates == Prop(result, "candidates")
      content == Prop(First(candidates), "content")
      parts == Prop(content, "parts")
      text == Prop(First(parts), "text")
  IN /\ Truthy(candidates)
     /\ NonEmpty(candidates)
     /\ Truthy(content)
     /\ Truthy(parts)
     /\ NonEmpty(parts)
     /\ Truthy(text)

RawJsonText(result) ==
  Prop(First(Prop(Prop(First(Prop(result, "candidates")), "content"), "parts")), "text").value

\* the outer catch of POST /suggest
SuggestCatch == Msg(500, "Server error while fetching AI suggestions.")

\* the inner try/catch without the Array.isArray test
ParseSuggestionsAnyJson(rawJsonText) ==
  LET parsed == JsonParse(rawJsonText) IN
  IF ~parsed.ok THEN
    <<Msg(500, "Failed to parse AI suggestions (invalid format from Gemini).")>>
  ELSE <<Json(200, "suggestions", rawJsonText)>>

\* the inner try/catch around JSON.parse and what follows it
ParseSuggestions(rawJsonText) ==
  LET parsed == JsonParse(rawJsonText) IN
  IF ~parsed.ok \/ ~IsArray(parsed.value) THEN
    <<Msg(500, "Failed to parse AI suggestions (invalid format from Gemini).")>>
  ELSE <<Json(200, "suggestions", rawJsonText)>>

\* POST /suggest from the return of fetch on: the responses it sends
AfterFetch(up) ==
  IF up.fetch = "reject" THEN <<SuggestCatch>>
  ELSE IF ~ResponseOk(up.status) THEN
    IF up.read = "fail" THEN <<SuggestCatch>>
    ELSE <<Msg(up.status, "Gemini API error")>>
  ELSE IF up.read = "fail" \/ ~ResponseJson(up.payload).ok THEN <<SuggestCatch>>
  ELSE
    LET result == ResponseJson(up.payload).value IN
    IF result.type = "null" THEN <<SuggestCatch>>
    ELSE IF HasText(result) THEN ParseSuggestions(RawJsonText(result))
    ELSE <<Msg(500, "No valid AI suggestions received from the service.")>>

\* POST /suggest up to await fetch(...)
SuggestHandler(body) ==
  IF Falsy(body.mainTaskTitle) THEN
    Eff(tasks, nextId, <<Msg(400, "Main task title is required for suggestions.")>>,
        <<>>, TRUE)
  ELSE IF Falsy(GEMINI_API_KEY) THEN
    Eff(tasks, nextId,
        <<Msg(500, "AI service not configured: GEMINI_API_KEY is missing.")>>, <<>>, TRUE)
  ELSE Eff(tasks, nextId, <<>>, <<Pending>>, TRUE)

\* ---- routes: router.METHOD(path, auth, handler) ----
\* auth answering in place of the handler: its 401, and next() is not called
Rejected(tok) == Eff(tasks, nextId, <<Auth(tok).res>>, <<>>, FALSE)

PostRoute(tok, body) ==
  IF Auth(tok).ok THEN PostHandler(Auth(tok).user, body) ELSE Rejected(tok)

GetRoute(tok) ==
  IF Auth(tok).ok THEN GetHandler(Auth(tok).user) ELSE Rejected(tok)

PutRoute(tok, id, body) ==
  IF Auth(tok).ok THEN PutHandler(Auth(tok).user, id, body) ELSE Rejected(tok)

DeleteRoute(tok, id) ==
  IF Auth(tok).ok THEN DeleteHandler(Auth(tok).user, id) ELSE Rejected(tok)

\* router.post("/suggest", handler): the route registered without auth
SuggestRouteNoAuth(tok, body) == SuggestHandler(body)

SuggestRoute(tok, body) ==
  IF Auth(tok).ok THEN SuggestHandler(body) ELSE Rejected(tok)

\* Express's answer when no route of the application matches
NotFound(method, path) ==
  Eff(tasks, nextId, <<Json(404, "html", "Cannot " \o method \o " /api/tasks" \o path)>>,
      <<>>, FALSE)

\* app.use("/api/tasks", taskRoutes): the route of the router that matches
Dispatch(r) ==
  CASE r.method = "POST" /\ r.path = "/" -> PostRoute(r.token, r.body)
    [] r.method = "GET" /\ r.path = "/" -> GetRoute(r.token)
    [] r.method = "PUT" /\ r.path = "/:id" -> PutRoute(r.token, r.id, r.body)
    [] r.method = "DELETE" /\ r.path = "/:id" -> DeleteRoute(r.token, r.id)
    [] r.method = "POST" /\ r.path = "/suggest" -> SuggestRoute(r.token, r.body)
    [] OTHER -> NotFound(r.method, r.path)

\* ---- the state machine ----
\* the state after startup, the environment variable GEMINI_API_KEY being key
Started(key) ==
  /\ tasks = <<>>
  /\ nextId = 1
  /\ GEMINI_API_KEY = Or(key, "")
  /\ req = Request("NONE", "", NoToken, BadId, EmptyBody)
  /\ sent = <<>>
  /\ outbound = <<>>
  /\ ran = FALSE
  /\ pc = "idle"
  /\ nreq = 0
  /\ awaiting = {}
  /\ removed = {}

\* a deployment with the AI service configured
Init == Started("key")

\* The server is free to take a request: requests are handled one after another.
Ready == pc = "idle" /\ nreq < MaxReqs

\* The server handles request r, to its response or to its await on the AI
\* service.
Handle(r) ==
  LET e == Dispatch(r) IN
  /\ e.nextId <= MaxTasks + 1
  /\ nreq' = nreq + 1
  /\ req' = r
  /\ tasks' = e.tasks
  /\ nextId' = e.nextId
  /\ sent' = e.sent
  /\ outbound' = e.outbound
  /\ ran' = e.ran
  /\ pc' = IF e.sent = <<>> THEN "fetch" ELSE "idle"
  /\ removed' = IF r.method = "DELETE" /\ e.sent[1].msg = "Task removed"
                THEN removed \cup {r.id} ELSE removed
  /\ UNCHANGED <<GEMINI_API_KEY, awaiting>>

Post(tok, body) ==
  /\ Ready
  /\ Handle(Request("POST", "/", tok, BadId, body))

Get(tok) ==
  /\ Ready
  /\ Handle(Request("GET", "/", tok, BadId, EmptyBody))

Put(tok, id, body) ==
  /\ Ready
  /\ Handle(Request("PUT", "/:id", tok, id, body))

Delete(tok, id) ==
  /\ Ready
  /\ Handle(Request("DELETE", "/:id", tok, id, EmptyBody))

GetById(tok, id) ==
  /\ Ready
  /\ Handle(Request("GET", "/:id", tok, id, EmptyBody))

Suggest(tok, body) ==
  /\ Ready
  /\ Handle(Request("POST", "/suggest", tok, BadId, body))

\* fetch settles with outcome up; a failed call is made once more
FetchReturnRetry(up) ==
  /\ pc = "fetch"
  /\ IF (up.fetch = "reject" \/ ~ResponseOk(up.status)) /\ Len(outbound) < 2
     THEN /\ outbound' = Append([outbound EXCEPT ![Len(outbound)] = up], Pending)
          /\ UNCHANGED <<sent, pc>>
     ELSE /\ outbound' = [outbound EXCEPT ![Len(outbound)] = up]
          /\ sent' = sent \o AfterFetch(up)
          /\ pc' = "idle"
  /\ UNCHANGED <<tasks, nextId, GEMINI_API_KEY, req, ran, nreq, awaiting, removed>>

\* fetch settles with outcome up and POST /suggest runs to its end
FetchReturn(up) ==
  /\ pc = "fetch"
  /\ outbound' = [outbound EXCEPT ![Len(outbound)] = up]
  /\ sent' = sent \o AfterFetch(up)
  /\ pc' = "idle"
  /\ UNCHANGED <<tasks, nextId, GEMINI_API_KEY, req, ran, nreq, awaiting, removed>>

Next ==
  \/ \E tok \in Tokens, body \in PostBodies : Post(tok, body)
  \/ \E tok \in Tokens : Get(tok)
  \/ \E tok \in Tokens, id \in ParamIds, body \in PutBodies : Put(tok, id, body)
  \/ \E tok \in Tokens, id \in ParamIds : Delete(tok, id)
  \/ \E tok \in Tokens, id \in ParamIds : GetById(tok, id)
  \/ \E tok \in Tokens, body \in SuggestBodies : Suggest(tok, body)
  \/ \E up \in Upstreams : FetchReturn(up)

Spec == Init /\ [][Next]_vars

\* POST /suggest alone, in a deployment with or without GEMINI_API_KEY
InitSuggest == \E key \in {Undefined, "key"} : Started(key)

NextSuggest ==
  \/ \E tok \in Tokens, body \in SuggestBodies : Suggest(tok, body)
  \/ \E up \in Upstreams : FetchReturn(up)

SpecSuggest == InitSuggest /\ [][NextSuggest]_vars

\* ---- PUT /:id and DELETE /:id, await by await ----
\* Each of the two handlers awaits Task.findById and later its write, task.save()
\* or Task.deleteOne(); steps of other requests run in between.

\* the task that the database holds when the server starts
StoredTask ==
  NewTask(1, [user |-> "u1", title |-> "t1", description |-> Undefined,
              priority |-> Undefined, dueDate |-> Null])

\* the server starts on a database that holds one task of u1
InitAwait ==
  /\ tasks = (1 :> StoredTask)
  /\ nextId = 2
  /\ GEMINI_API_KEY = "key"
  /\ req = Request("NONE", "", NoToken, BadId, EmptyBody)
  /\ sent = <<>>
  /\ outbound = <<>>
  /\ ran = FALSE
  /\ pc = "idle"
  /\ nreq = 0
  /\ awaiting = {}
  /\ removed = {}

\* bodies of the PUT requests, one of them with nothing to change
AwaitBodies == PutBodies \cup {EmptyBody}

\* findById gave a task and the ownership check let the handler go on
FoundOwn(tok, id) ==
  /\ Auth(tok).ok
  /\ FindById(id).err = ""
  /\ id \in DOMAIN tasks
  /\ FindById(id).doc.user = Auth(tok).user

\* the handler of r holds the task it found and awaits its write
Await(r) ==
  /\ nreq' = nreq + 1
  /\ awaiting' = awaiting \cup {Awaiting(r, FindById(r.id).doc)}
  /\ UNCHANGED <<tasks, nextId, GEMINI_API_KEY, req, sent, outbound, ran, pc, removed>>

\* task.save() writing the document whether or not it is still stored
SaveUpsert(found, task) ==
  [tasks |-> [i \in DOMAIN tasks \cup {found._id} |->
                IF i = found._id THEN task ELSE tasks[i]],
   err |-> ""]

\* task.save() of a document that findById gave as found and the handler changed
\* to task: Mongoose writes the changed paths to the stored document with its
\* _id, and throws DocumentNotFoundError when no document has that _id.
Save(found, task) ==
  IF found._id \in DOMAIN tasks THEN
    [tasks |-> [tasks EXCEPT
                  ![found._id] =
                    [@ EXCEPT
                       !.title = IF task.title # found.title THEN task.title ELSE @,
                       !.description = IF task.description # found.description
                                       THEN task.description ELSE @,
                       !.priority = IF task.priority # found.priority
                                    THEN task.priority ELSE @,
                       !.dueDate = IF task.dueDate # found.dueDate
                                   THEN task.dueDate ELSE @,
                       !.status = IF task.status # found.status
                                  THEN task.status ELSE @]],
     err |-> ""]
  ELSE [tasks |-> tasks, err |-> "DocumentNotFoundError"]

\* Task.deleteOne({ _id: id })
DeleteOne(id) == [i \in DOMAIN tasks \ {id} |-> tasks[i]]

\* PUT /:id up to its await of task.save(), or to the response it sends before
PutFind(tok, id, body) ==
  /\ Ready
  /\ IF FoundOwn(tok, id) THEN Await(Request("PUT", "/:id", tok, id, body))
     ELSE Handle(Request("PUT", "/:id", tok, id, body))

\* PUT /:id from task.save() on
PutSave(h) ==
  /\ h \in awaiting
  /\ h.req.method = "PUT"
  /\ LET task == UpdateFields(h.task, h.req.body)
         saved == Save(h.task, task)
     IN /\ tasks' = saved.tasks
        /\ sent' = IF saved.err = "" THEN <<Json(200, "task", task)>>
                   ELSE <<CatchCast(saved.err)>>
  /\ req' = h.req
  /\ outbound' = <<>>
  /\ ran' = TRUE
  /\ awaiting' = awaiting \ {h}
  /\ UNCHANGED <<nextId, GEMINI_API_KEY, pc, nreq, removed>>

\* DELETE /:id up to its await of Task.deleteOne, or to the response it sends before
DeleteFind(tok, id) ==
  /\ Ready
  /\ IF FoundOwn(tok, id) THEN Await(Request("DELETE", "/:id", tok, id, EmptyBody))
     ELSE Handle(Request("DELETE", "/:id", tok, id, EmptyBody))

\* DELETE /:id from Task.deleteOne on
DeleteRemove(h) ==
  /\ h \in awaiting
  /\ h.req.method = "DELETE"
  /\ tasks' = DeleteOne(h.req.id)
  /\ sent' = <<Msg(200, "Task removed")>>
  /\ removed' = removed \cup {h.req.id}
  /\ req' = h.req
  /\ outbound' = <<>>
  /\ ran' = TRUE
  /\ awaiting' = awaiting \ {h}
  /\ UNCHANGED <<nextId, GEMINI_API_KEY, pc, nreq>>

NextAwait ==
  \/ \E tok \in Tokens, id \in ParamIds, body \in AwaitBodies : PutFind(tok, id, body)
  \/ \E h \in awaiting : PutSave(h)
  \/ \E tok \in Tokens, id \in ParamIds : DeleteFind(tok, id)
  \/ \E h \in awaiting : DeleteRemove(h)
  \/ \E tok \in Tokens : Get(tok)

SpecAwait == InitAwait /\ [][NextAwait]_vars

\* ---- vocabulary of the properties ----
\* the request carries a token that verifies
Authed(r) == Verified(r.token) # {}
\* the user id of that token
UserOf(r) == CHOOSE u \in Verified(r.token) : TRUE

\* this step is the server receiving a request of the given method and path
Receives(method, path) == nreq' # nreq /\ req'.method = method /\ req'.path = path

\* the responses sq are exactly one message response with this status and text
OneMsg(sq, status, msg) ==
  Len(sq) = 1 /\ sq[1].status = status /\ sq[1].kind = "msg" /\ sq[1].msg = msg

\* the fields PUT /:id assigns
UpdatableFields == {"title", "description", "priority", "dueDate", "status"}

\* C1: a stored task is changed or removed only by a PUT or DELETE on it whose
\* authenticated user is its owner; a PUT or DELETE on a stored task by another
\* authenticated user is answered 401 "Not authorized" and changes nothing.
C1_OwnerOnlyMutation ==
  [][ /\ \A id \in DOMAIN tasks :
           (id \notin DOMAIN tasks' \/ tasks'[id] # tasks[id]) =>
             /\ req'.method \in {"PUT", "DELETE"}
             /\ req'.path = "/:id"
             /\ req'.id = id
             /\ Authed(req')
             /\ UserOf(req') = tasks[id].user
      /\ ( /\ (Receives("PUT", "/:id") \/ Receives("DELETE", "/:id"))
           /\ Authed(req')
           /\ req'.id \in DOMAIN tasks
           /\ tasks[req'.id].user # UserOf(req') ) =>
             /\ OneMsg(sent', 401, "Not authorized")
             /\ tasks' = tasks
    ]_vars

\* a PUT by a user on a stored task of another user was answered 401
C1_Witness ==
  /\ req.method = "PUT"
  /\ Authed(req)
  /\ req.id \in DOMAIN tasks
  /\ tasks[req.id].user # UserOf(req)
  /\ OneMsg(sent, 401, "Not authorized")

\* C2: GET / by an authenticated user U answers with exactly the stored tasks
\* whose owner is U, each once, newest first.
C2_GetOwnTasksNewestFirst ==
  (req.method = "GET" /\ req.path = "/" /\ Authed(req)) =>
    /\ Len(sent) = 1
    /\ sent[1].status = 200
    /\ sent[1].kind = "tasks"
    /\ LET list == sent[1].json
           own == {id \in DOMAIN tasks : tasks[id].user = UserOf(req)}
       IN /\ Len(list) = Cardinality(own)
          /\ {list[i] : i \in 1..Len(list)} = {tasks[id] : id \in own}
          /\ \A i, j \in 1..Len(list) : i < j => list[i].createdAt > list[j].createdAt

\* a GET answered with two tasks of the user
C2_Witness ==
  /\ req.method = "GET"
  /\ req.path = "/"
  /\ Authed(req)
  /\ Len(sent) = 1
  /\ sent[1].kind = "tasks"
  /\ Len(sent[1].json) = 2

\* a GET answered with a task while another user's task is stored
C2_WitnessOtherUser ==
  /\ req.method = "GET"
  /\ req.path = "/"
  /\ Authed(req)
  /\ Len(sent) = 1
  /\ sent[1].kind = "tasks"
  /\ Len(sent[1].json) = 1
  /\ \E id \in DOMAIN tasks : tasks[id].user # UserOf(req)

\* C3: a POST / with a non-empty title by an authenticated user U adds exactly
\* one task, owned by U whatever the body says, leaves every stored task as it
\* was and answers 201 with the created task.
C3_PostAddsOneOwnedTask ==
  [][ (Receives("POST", "/") /\ Authed(req') /\ ~Falsy(req'.body.title)) =>
        /\ Cardinality(DOMAIN tasks' \ DOMAIN tasks) = 1
        /\ \A id \in DOMAIN tasks : id \in DOMAIN tasks' /\ tasks'[id] = tasks[id]
        /\ \A id \in DOMAIN tasks' \ DOMAIN tasks :
             /\ tasks'[id].user = UserOf(req')
             /\ tasks'[id].title = req'.body.title
             /\ Len(sent') = 1
             /\ sent'[1].status = 201
             /\ sent'[1].kind = "task"
             /\ sent'[1].json = tasks'[id]
    ]_vars

\* a POST whose body names another user created a task of the authenticated
\* user next to a stored one
C3_Witness ==
  /\ req.method = "POST"
  /\ req.path = "/"
  /\ Authed(req)
  /\ req.body.user \notin {Undefined, UserOf(req)}
  /\ Len(sent) = 1
  /\ sent[1].status = 201
  /\ sent[1].kind = "task"
  /\ tasks[sent[1].json._id].user = UserOf(req)
  /\ Cardinality(DOMAIN tasks) = 2

\* C4: the handler body of a task endpoint runs, and the task store or the AI
\* service is touched, only for a request the auth middleware accepted; any
\* other request to the five endpoints gets the middleware's 401 alone.
C4_AuthRequired ==
  [][ /\ ran' => Authed(req')
      /\ tasks' # tasks => Authed(req')
      /\ outbound' # <<>> => Authed(req')
      /\ ( /\ \/ Receives("POST", "/") \/ Receives("GET", "/")
              \/ Receives("PUT", "/:id") \/ Receives("DELETE", "/:id")
              \/ Receives("POST", "/suggest")
           /\ ~Authed(req') ) =>
             Len(sent') = 1 /\ sent'[1].status = 401 /\ pc' = "idle"
    ]_vars

\* a request for suggestions without a valid token was turned away
C4_Witness ==
  /\ req.method = "POST"
  /\ req.path = "/suggest"
  /\ ~Falsy(req.body.mainTaskTitle)
  /\ ~Authed(req)
  /\ ~ran
  /\ Len(sent) = 1
  /\ sent[1].status = 401
  /\ outbound = <<>>

\* C5: GET /:id by an authenticated user for the id of a stored task is
\* answered with that task.
C5_GetByIdOffered ==
  (req.method = "GET" /\ req.path = "/:id" /\ Authed(req) /\ req.id \in DOMAIN tasks) =>
    /\ Len(sent) = 1
    /\ sent[1].status = 200
    /\ sent[1].kind = "task"
    /\ sent[1].json = tasks[req.id]

\* C6: a PUT /:id answered with success changed only the targeted task, and of
\* it only title, description, priority, dueDate and status; a field the body
\* does not have kept its value, and no other task changed.
C6_PutFrame ==
  [][ (Receives("PUT", "/:id") /\ Len(sent') = 1 /\ sent'[1].status = 200) =>
        LET id == req'.id IN
        /\ id \in DOMAIN tasks
        /\ DOMAIN tasks' = DOMAIN tasks
        /\ \A i \in DOMAIN tasks \ {id} : tasks'[i] = tasks[i]
        /\ tasks'[id]._id = tasks[id]._id
        /\ tasks'[id].user = tasks[id].user
        /\ tasks'[id].createdAt = tasks[id].createdAt
        /\ \A f \in UpdatableFields :
             req'.body[f] = Undefined => tasks'[id][f] = tasks[id][f]
    ]_vars

\* a PUT with only status and priority updated one of two stored tasks
C6_Witness ==
  /\ req.method = "PUT"
  /\ Len(sent) = 1
  /\ sent[1].status = 200
  /\ req.body.status = "completed"
  /\ req.body.priority = "low"
  /\ req.body.title = Undefined
  /\ Cardinality(DOMAIN tasks) = 2
  /\ tasks[req.id].status = "completed"
  /\ tasks[req.id].title = "t1"

\* ---- POST /suggest ----
\* the outbound call failed: fetch rejected, or the response was not OK
CallFailed(up) == up.fetch = "reject" \/ (up.fetch = "resolve" /\ up.status \notin 200..299)

\* the payloads whose candidates[0].content.parts[0].text is a JSON array
ArrayTextPayloads == {"text:[]", "text:[\"Plan\",\"Do\"]"}

\* the upstream call returned OK with a body carrying a JSON array as text
GoodAnswer(up) ==
  /\ up.fetch = "resolve"
  /\ up.status \in 200..299
  /\ up.read = "ok"
  /\ up.payload \in ArrayTextPayloads

\* C7: a POST /suggest makes at most one outbound call: none when
\* mainTaskTitle is missing (400) or GEMINI_API_KEY is not configured (500), and
\* after a failed or rejected call it answers with an error, having called once.
C7_AtMostOneCall ==
  req.path = "/suggest" =>
    /\ Len(outbound) <= 1
    /\ (Authed(req) /\ Falsy(req.body.mainTaskTitle)) =>
         /\ outbound = <<>>
         /\ OneMsg(sent, 400, "Main task title is required for suggestions.")
    /\ (Authed(req) /\ ~Falsy(req.body.mainTaskTitle) /\ GEMINI_API_KEY = "") =>
         /\ outbound = <<>>
         /\ OneMsg(sent, 500, "AI service not configured: GEMINI_API_KEY is missing.")
    /\ (outbound # <<>> /\ CallFailed(outbound[1])) =>
         /\ pc = "idle"
         /\ Len(outbound) = 1
         /\ Len(sent) = 1
         /\ sent[1].kind = "msg"
         /\ sent[1].status \notin 200..299

\* a request whose one outbound call was rejected got a 500
C7_Witness ==
  /\ req.path = "/suggest"
  /\ pc = "idle"
  /\ Len(outbound) = 1
  /\ outbound[1].fetch = "reject"
  /\ Len(sent) = 1
  /\ sent[1].status = 500

\* C8: a POST / by an authenticated user whose body has no title (missing or
\* empty) is answered 400 "Task title is required" and the store is unchanged.
C8_PostWithoutTitle ==
  [][ (Receives("POST", "/") /\ Authed(req') /\ req'.body.title \in {Undefined, ""}) =>
        /\ OneMsg(sent', 400, "Task title is required")
        /\ tasks' = tasks
        /\ nextId' = nextId
    ]_vars

\* a POST with an empty title and other fields was refused, a task being stored
C8_Witness ==
  /\ req.method = "POST"
  /\ req.path = "/"
  /\ Authed(req)
  /\ req.body.title = ""
  /\ req.body.description # Undefined
  /\ OneMsg(sent, 400, "Task title is required")
  /\ DOMAIN tasks # {}

\* C9 as stated: a POST /suggest gets exactly one response; it is a success
\* with the suggestions exactly when the upstream call returned OK with a
\* non-empty text that parses as a JSON array; a non-OK upstream response is
\* answered with the upstream status, every other outcome of the call with 500.
C9_Original ==
  (req.path = "/suggest" /\ pc = "idle") =>
    /\ Len(sent) = 1
    /\ (sent[1].status = 200 /\ sent[1].kind = "suggestions")
         <=> (Len(outbound) = 1 /\ GoodAnswer(outbound[1]))
    /\ Len(outbound) = 1 =>
         LET up == outbound[1] IN
         IF GoodAnswer(up) THEN sent[1].status = 200
         ELSE IF up.fetch = "resolve" /\ up.status \notin 200..299
              THEN sent[1].status = up.status
         ELSE sent[1].status = 500

\* C9 amended: as C9, but a non-OK upstream response is answered with the
\* upstream status only when its body text could be read; when reading it
\* fails the answer is 500, as for every other failure.
C9_SuggestResponses ==
  (req.path = "/suggest" /\ pc = "idle") =>
    /\ Len(sent) = 1
    /\ (sent[1].status = 200 /\ sent[1].kind = "suggestions")
         <=> (Len(outbound) = 1 /\ GoodAnswer(outbound[1]))
    /\ (Len(outbound) = 1 /\ GoodAnswer(outbound[1])) =>
         "text:" \o sent[1].json = outbound[1].payload
    /\ Len(outbound) = 1 =>
         LET up == outbound[1] IN
         IF GoodAnswer(up) THEN sent[1].status = 200
         ELSE IF up.fetch = "resolve" /\ up.status \notin 200..299 /\ up.read = "ok"
              THEN sent[1].status = up.status /\ sent[1].kind = "msg"
         ELSE sent[1].status = 500 /\ sent[1].kind = "msg"

\* a non-OK upstream response whose body could not be read was answered 500
C9_Witness ==
  /\ req.path = "/suggest"
  /\ pc = "idle"
  /\ Len(outbound) = 1
  /\ outbound[1].fetch = "resolve"
  /\ outbound[1].status = 429
  /\ outbound[1].read = "fail"
  /\ Len(sent) = 1
  /\ sent[1].status = 500

\* C10: for PUT and DELETE /:id by an authenticated user the first failing
\* check decides and the store is unchanged: a malformed id gives 400 "Invalid
\* task ID", a well-formed id of no stored task 404 "Task not found" whoever
\* asks, a stored task of another user 401; a DELETE by the owner removes
\* exactly that task and answers "Task removed".
C10_CheckOrder ==
  [][ ((Receives("PUT", "/:id") \/ Receives("DELETE", "/:id")) /\ Authed(req')) =>
        LET id == req'.id IN
        /\ id = BadId =>
             OneMsg(sent', 400, "Invalid task ID") /\ tasks' = tasks
        /\ (id # BadId /\ id \notin DOMAIN tasks) =>
             OneMsg(sent', 404, "Task not found") /\ tasks' = tasks
        /\ (id \in DOMAIN tasks /\ tasks[id].user # UserOf(req')) =>
             OneMsg(sent', 401, "Not authorized") /\ tasks' = tasks
        /\ (id \in DOMAIN tasks /\ tasks[id].user = UserOf(req')
              /\ req'.method = "DELETE") =>
             /\ OneMsg(sent', 200, "Task removed")
             /\ DOMAIN tasks' = DOMAIN tasks \ {id}
             /\ \A i \in DOMAIN tasks' : tasks'[i] = tasks[i]
    ]_vars

\* a DELETE by the owner removed one of two stored tasks
C10_Witness ==
  /\ req.method = "DELETE"
  /\ Authed(req)
  /\ OneMsg(sent, 200, "Task removed")
  /\ req.id \notin DOMAIN tasks
  /\ Cardinality(DOMAIN tasks) = 1

\* a DELETE of a task that was removed before was answered 404
C10_WitnessNotFound ==
  /\ req.method = "DELETE"
  /\ Authed(req)
  /\ OneMsg(sent, 404, "Task not found")
  /\ req.id < nextId

\* ---- dueDate ----
\* C11: no stored task has the empty string as dueDate: a POST that stores a
\* task with dueDate absent or empty stores null, and a PUT answered with
\* success sets dueDate to null when the body has "" or null and keeps the
\* previous value when the body has no dueDate.
C11_DueDateNeverEmpty ==
  [][ /\ \A id \in DOMAIN tasks' : tasks'[id].dueDate # ""
      /\ (Receives("POST", "/") /\ Len(sent') = 1 /\ sent'[1].status = 201
            /\ req'.body.dueDate \in {Undefined, ""}) =>
           /\ nextId \in DOMAIN tasks'
           /\ tasks'[nextId].dueDate = Null
      /\ (Receives("PUT", "/:id") /\ Len(sent') = 1 /\ sent'[1].status = 200) =>
           LET id == req'.id
               dueDate == req'.body.dueDate
           IN /\ dueDate \in {"", Null} => tasks'[id].dueDate = Null
              /\ dueDate = Undefined => tasks'[id].dueDate = tasks[id].dueDate
    ]_vars

\* a PUT with dueDate "" set to null the dueDate of a task stored with a date
C11_Witness ==
  /\ req.method = "PUT"
  /\ Len(sent) = 1
  /\ sent[1].status = 200
  /\ req.body.dueDate = ""
  /\ tasks[req.id].description = "d1"
  /\ tasks[req.id].priority = "high"
  /\ tasks[req.id].dueDate = Null

\* a POST with dueDate "" stored a task with dueDate null
C11_WitnessPost ==
  /\ req.method = "POST"
  /\ Len(sent) = 1
  /\ sent[1].status = 201
  /\ req.body.dueDate = ""
  /\ sent[1].json.dueDate = Null
  /\ tasks[sent[1].json._id].dueDate = Null

\* ---- PUT and DELETE interleaved ----
\* C12: with the steps of PUT and DELETE interleaved, a task for which DELETE
\* has answered "Task removed" is not stored and is in no later answer of
\* GET /; a PUT is answered with success only for a task that is stored and
\* was never removed.
C12_RemovedStaysRemoved ==
  /\ \A id \in removed : id \notin DOMAIN tasks
  /\ (req.method = "GET" /\ Len(sent) = 1 /\ sent[1].kind = "tasks") =>
       \A i \in 1..Len(sent[1].json) : sent[1].json[i]._id \notin removed
  /\ (req.method = "PUT" /\ Len(sent) = 1 /\ sent[1].status = 200) =>
       /\ req.id \in DOMAIN tasks
       /\ req.id \notin removed

\* a PUT of the owner found the task, the task was removed by a DELETE, and the
\* PUT then failed in task.save()
C12_Witness ==
  /\ req.method = "PUT"
  /\ req.id \in removed
  /\ OneMsg(sent, 500, "Server error")
  /\ tasks = <<>>

\* after a PUT and a DELETE of the task, a GET of the owner has an empty answer
C12_WitnessLaterGet ==
  /\ req.method = "GET"
  /\ req.token = TokenOf("u1")
  /\ removed = {1}
  /\ awaiting = {}
  /\ nreq = 3
  /\ Len(sent) = 1
  /\ sent[1].json = <<>>

====
